---- MODULE Spec2Model ----
(***************************************************************************)
(* A model of the two tool adapters of alita_tools:                        *)
(*   github/api_wrapper.py      AlitaGitHubAPIWrapper                      *)
(*   sharepoint/api_wrapper.py  SharepointApiWrapper                       *)
(*                                                                         *)
(* A behaviour of Spec follows one adapter instance.  The caller starts a  *)
(* call when the adapter is idle, the handler runs (in one step, or step   *)
(* by step for the work-queue loop of _get_files), the call returns or     *)
(* raises, and the caller takes the outcome.  The remote services are the  *)
(* environment: every remote primitive answers from the remote content     *)
(* of the moment, or fails.  SpecAuth models the construction of the       *)
(* adapters (validate_environment, validate_toolkit).                      *)
(*                                                                         *)
(* Python values: strings are TLA+ strings, a formatted string is the      *)
(* sequence of its literal and interpolated pieces, None is the kind       *)
(* "None" of an outcome, an exception is named by its class.               *)
(***************************************************************************)
EXTENDS Integers, Sequences, FiniteSets, TLC

VARIABLES
    adapter,             \* "github" or "sharepoint": the instance followed
    active_branch,       \* AlitaGitHubAPIWrapper.active_branch
    github_base_branch,  \* AlitaGitHubAPIWrapper.github_base_branch
    github,              \* AlitaGitHubAPIWrapper.github (the session)
    client,              \* SharepointApiWrapper.client (the session, or "None")
    root_folder,         \* SharepointApiWrapper.root_folder
    pc,                  \* "idle", "loop" (inside _get_files), "returned"
    call,                \* the call in progress or just finished
    pre,                 \* the adapter's fields when the call started
    inv,                 \* the callables run() has invoked in this call
    net,                 \* the remote primitives called in this call, in order
    callee,              \* the outcome of the callable run() invoked
    out,                 \* the outcome of the call: returned value or exception
    listed,              \* names the last two get_available_tools() returned
    remote0,             \* the remote repository when the call started
    remote,              \* the remote repository now
    ref,                 \* _get_files: parameter ref
    contents,            \* _get_files: local contents (the work queue)
    files,               \* _get_files: local files (the accumulated result)
    cfg,                 \* construction: the configuration given
    built                \* construction: what the root validator produced

vars == <<adapter, active_branch, github_base_branch, github, client, root_folder,
          pc, call, pre, inv, net, callee, out, listed, remote0, remote, ref, contents,
          files, cfg, built>>

fieldVars == <<adapter, active_branch, github_base_branch, github, client, root_folder>>
loopVars == <<ref, contents, files>>
authVars == <<cfg, built>>

----------------------------------------------------------------------------
(* Bounds of the model.                                                    *)

\* Depth of the directory trees of the remote repository.
MaxDepth == 2
\* Length of the byte content of a remote SharePoint file.
MaxBytes == 2
\* Number of items or files a remote SharePoint library or folder holds.
MaxItems == 3

Branches == {"main", "ai"}
NA == "n/a"

Range(s) == {s[i] : i \in 1..Len(s)}
SeqsUpTo(S, n) == UNION {[1..k -> S] : k \in 0..n}

----------------------------------------------------------------------------
(* Outcomes of a call.                                                     *)

\* text: the pieces of a returned string or of an exception's message;
\* data: the elements of a returned list, the characters of a decoded text.
NoOutcome == [raised |-> "none", kind |-> "unset", text |-> <<>>, data |-> <<>>]
Returns(kind, text) == [raised |-> "none", kind |-> kind, text |-> text, data |-> <<>>]
ReturnsStr(text) == Returns("str", text)
ReturnsData(kind, data) == [raised |-> "none", kind |-> kind, text |-> <<>>, data |-> data]
ReturnsNone == Returns("None", <<>>)
Raises(exc, text) == [raised |-> exc, kind |-> "unset", text |-> text, data |-> <<>>]

\* except GithubException: UnknownObjectException (404) is a subclass.
IsGithubException(exc) == exc \in {"GithubException", "UnknownObjectException"}

\* What a remote primitive can do besides answering: fail with the client
\* library's exception, or with an exception of the transport below it.
Faults == {"ok", "GithubException", "ConnectionError"}

\* A remote primitive called, and how the remote answered it.
RemoteCall(prim, arg, r, ans) ==
    [prim |-> prim, arg |-> arg, ref |-> r, ans |-> IF ans = "none" THEN "ok" ELSE ans]

----------------------------------------------------------------------------
(* The remote repository: per branch a git tree, which is the set of its   *)
(* file paths (a directory exists exactly as a proper prefix of a file     *)
(* path), and the branch the service reads when a request names no ref.    *)

FileName == "a.txt"
DirName == "dir"
Names == {FileName, DirName}

Under(name, tree) == {<<name>> \o p : p \in tree}

\* The trees of depth at most d: a directory may hold the file a.txt, and
\* an entry dir that is a file or a non-empty directory.
RECURSIVE TreesOfDepth(_)
TreesOfDepth(d) ==
    IF d = 0 THEN {{}}
    ELSE LET subdirs == {Under(DirName, t) : t \in TreesOfDepth(d - 1) \ {{}}}
         IN  {a \cup e : a \in {{}, {<<FileName>>}},
                         e \in {{}, {<<DirName>>}} \cup subdirs}

Trees == TreesOfDepth(MaxDepth)
Remotes == [tree : [Branches -> Trees], default : Branches]
NoRemote == [tree |-> [b \in Branches |-> {}], default |-> "main"]
\* The remotes as far as a call can tell them apart that reads the branches
\* bs and no other, d being the default branch: the other branches are blank.
RemotesRead(bs, d) ==
    {r \in Remotes : r.default = d /\ \A b \in Branches \ bs : r.tree[b] = {}}

AllPaths == SeqsUpTo(Names, MaxDepth)

RECURSIVE PathStr(_)
PathStr(p) ==
    IF Len(p) = 0 THEN ""
    ELSE IF Len(p) = 1 THEN p[1]
    ELSE p[1] \o "/" \o PathStr(Tail(p))

PathStrings == {PathStr(p) : p \in AllPaths}
ParsePath(s) == CHOOSE p \in AllPaths : PathStr(p) = s

IsPrefix(p, q) == Len(p) <= Len(q) /\ SubSeq(q, 1, Len(p)) = p
Children(tree, p) ==
    {SubSeq(q, 1, Len(p) + 1) : q \in {x \in tree : IsPrefix(p, x) /\ Len(x) > Len(p)}}

ContentFile(tree, q) ==
    [path |-> PathStr(q), type |-> IF q \in tree THEN "file" ELSE "dir"]

Orders(S) == {s \in [1..Cardinality(S) -> S] : Range(s) = S}

\* Repository.get_contents(path, ref) of the client library on a tree: a
\* single ContentFile for a file, a list of ContentFile for a directory (in
\* the order the service lists them), UnknownObjectException otherwise.
GetContentsAnswers(tree, path) ==
    LET p == ParsePath(path)
        ch == Children(tree, p)
    IN  IF p \in tree
          THEN {[raised |-> "none", kind |-> "file", list |-> <<ContentFile(tree, p)>>]}
        ELSE IF ch = {}
          THEN {[raised |-> "UnknownObjectException", kind |-> "none", list |-> <<>>]}
        ELSE {[raised |-> "none", kind |-> "list",
               list |-> [i \in 1..Cardinality(ch) |-> ContentFile(tree, o[i])]]
              : o \in Orders(ch)}

\* ... against a remote that may also fail.  r is the ref passed, or NA
\* when the call passes none and the service reads its default branch.
get_contents(rem, path, r, fault) ==
    IF fault # "ok"
      THEN {[raised |-> fault, kind |-> "none", list |-> <<>>]}
      ELSE GetContentsAnswers(rem.tree[IF r = NA THEN rem.default ELSE r], path)

\* Python truth of what get_contents returned: an object, or a list.
Truthy(gc) == gc.kind = "file" \/ (gc.kind = "list" /\ Len(gc.list) > 0)

\* Repository.create_file(path, message, content, branch) of the client
\* library: the service refuses (422) a path that exists or that cannot
\* exist beside the files of the branch.
CanCreate(tree, p) ==
    /\ Len(p) > 0
    /\ \A q \in tree : ~IsPrefix(p, q) /\ ~IsPrefix(q, p)

repo_create_file(rem, path, branch, fault) ==
    LET p == ParsePath(path) IN
    IF fault # "ok" THEN [raised |-> fault, rem |-> rem]
    ELSE IF ~CanCreate(rem.tree[branch], p) THEN [raised |-> "GithubException", rem |-> rem]
    ELSE [raised |-> "none",
          rem |-> [rem EXCEPT !.tree[branch] = rem.tree[branch] \cup {p}]]

----------------------------------------------------------------------------
(* The registries: get_available_tools() of each adapter.                  *)

Tool(name, r, schema) == [name |-> name, ref |-> r, args_schema |-> schema]

GitHubTools ==
    << Tool("get_issues", "get_issues", "NoInput"),
       Tool("get_issue", "get_issue", "GetIssue"),
       Tool("comment_on_issue", "comment_on_issue", "CommentOnIssue"),
       Tool("list_open_pull_requests", "list_open_pull_requests", "NoInput"),
       Tool("get_pull_request", "get_pull_request", "GetPR"),
       Tool("list_pull_request_files", "list_pull_request_diffs", "GetPR"),
       Tool("create_pull_request", "create_pull_request", "CreatePR"),
       Tool("create_file", "create_file", "CreateFile"),
       Tool("read_file", "read_file", "ReadFile"),
       Tool("update_file", "update_file", "UpdateFile"),
       Tool("delete_file", "delete_file", "DeleteFile"),
       Tool("list_files_in_main_branch", "list_files_in_main_branch", "NoInput"),
       Tool("list_branches_in_repo", "list_branches_in_repo", "NoInput"),
       Tool("set_active_branch", "set_active_branch", "BranchName"),
       Tool("create_branch", "create_branch", "CreateBranchName"),
       Tool("get_files_from_directory", "get_files_from_directory", "DirectoryPath") >>

SharepointTools ==
    << Tool("read_list", "read_list", "SharepointReadList"),
       Tool("get_all_files", "get_all_files", "SharepointGetAllFiles"),
       Tool("get_all_files_in_folder", "get_all_files_in_folder",
            "SharepointGetAllFilesInFolder"),
       Tool("read_document", "read_file", "SharepointReadDocument") >>

\* A registry that leaves the later tools out while the active branch is
\* the base branch.
get_available_tools_by_branch(a) ==
    IF a = "github"
      THEN IF active_branch = github_base_branch THEN SubSeq(GitHubTools, 1, 7) ELSE GitHubTools
      ELSE SharepointTools

\* A registry in which a later descriptor carries the name of an earlier one.
get_available_tools_shadowed(a) ==
    IF a = "github"
      THEN [GitHubTools EXCEPT ![16].name = "get_issue"]
      ELSE [SharepointTools EXCEPT ![4].name = "get_all_files"]

get_available_tools(a) == IF a = "github" THEN GitHubTools ELSE SharepointTools

ToolNames(tools) == [i \in 1..Len(tools) |-> tools[i].name]

\* run() with a loop that settles on the first descriptor when none matches.
RECURSIVE RunLoop_first_on_miss(_, _, _)
RunLoop_first_on_miss(tools, i, name) ==
    IF i > Len(tools) THEN 1
    ELSE IF tools[i].name = name THEN i
    ELSE RunLoop_first_on_miss(tools, i + 1, name)

\* The for loop of run(): the index of the first descriptor whose name is
\* the requested one, 0 when the loop ends without a match (the else clause).
RECURSIVE RunLoop(_, _, _)
RunLoop(tools, i, name) ==
    IF i > Len(tools) THEN 0
    ELSE IF tools[i].name = name THEN i
    ELSE RunLoop(tools, i + 1, name)

\* The last two listings: h with the listing x added.
Push(h, x) == IF Len(h) < 2 THEN Append(h, x) ELSE <<h[2], x>>

\* run() that passes the positional arguments on and drops the keywords.
run_forward_drop_kwargs(a, k) == [args |-> a, kwargs |-> [n \in {} |-> ""]]

\* return tool["ref"](args, kwargs): what run() passes on, and hands back.
run_forward(a, k) == [args |-> a, kwargs |-> k]
run_return(o) == o

----------------------------------------------------------------------------
(* Calls.  A call gives positional arguments (a tuple) and keyword         *)
(* arguments (a function of parameter names).                              *)

NoKw == [n \in {} |-> ""]
NoCall == [op |-> NA, name |-> NA, args |-> <<>>, kwargs |-> NoKw]
Fields ==
    [active_branch |-> active_branch, github_base_branch |-> github_base_branch,
     github |-> github, client |-> client, root_folder |-> root_folder]

\* limit_files=10 of get_all_files and get_all_files_in_folder.
DefaultLimit == 10

\* The parameters the def of each method declares, and their defaults.
Params(a, r) ==
    CASE a = "github" /\ r = "create_file" -> <<"file_path", "file_contents">>
      [] a = "github" /\ r = "get_issue" -> <<"issue_number">>
      [] a = "github" /\ r \in {"get_pull_request", "list_pull_request_diffs"} -> <<"pr_number">>
      [] a = "github" /\ r = "get_files_from_directory" -> <<"directory_path">>
      [] a = "sharepoint" /\ r = "read_list" -> <<"list_title">>
      [] a = "sharepoint" /\ r = "get_all_files" -> <<"limit_files">>
      [] a = "sharepoint" /\ r = "get_all_files_in_folder" -> <<"folder_name", "limit_files">>
      [] a = "sharepoint" /\ r = "read_file" -> <<"path">>
      [] OTHER -> <<>>

Defaults(a, r) ==
    IF a = "sharepoint" /\ r \in {"get_all_files", "get_all_files_in_folder"}
      THEN [n \in {"limit_files"} |-> DefaultLimit]
      ELSE NoKw

IndexOf(params, n) == CHOOSE i \in 1..Len(params) : params[i] = n

\* Python's binding of ref(args, kwargs) to the parameters: TypeError for
\* too many positionals, an unknown or doubled keyword, a missing argument.
Bind(params, defaults, a, k) ==
    LET ok == /\ Len(a) <= Len(params)
              /\ \A n \in DOMAIN k : n \in Range(params)
              /\ \A i \in 1..Len(a) : i <= Len(params) => params[i] \notin DOMAIN k
              /\ \A i \in (Len(a) + 1)..Len(params) :
                    params[i] \in DOMAIN k \/ params[i] \in DOMAIN defaults
    IN  [ok |-> ok,
         val |-> IF ~ok THEN NoKw
                 ELSE [n \in Range(params) |->
                         IF IndexOf(params, n) <= Len(a) THEN a[IndexOf(params, n)]
                         ELSE IF n \in DOMAIN k THEN k[n]
                         ELSE defaults[n]]]

\* The two ways of passing the values vals for params.
Positional(vals) == [args |-> vals, kwargs |-> NoKw]
Keywords(params, vals) ==
    [args |-> <<>>, kwargs |-> [n \in Range(params) |-> vals[IndexOf(params, n)]]]

\* The end of a call: the handler's outcome o, the remote calls n it made.
Leave(o, n, rem0, rem1) ==
    /\ callee' = IF call'.op = "run" THEN o ELSE NoOutcome
    /\ out' = IF call'.op = "run" THEN run_return(o) ELSE o
    /\ net' = n
    /\ remote0' = rem0
    /\ remote' = rem1
    /\ pc' = "returned"

Done(o, n, rem0, rem1) == Leave(o, n, rem0, rem1) /\ UNCHANGED loopVars

----------------------------------------------------------------------------
(* AlitaGitHubAPIWrapper: the operations.                                  *)

Numerals == {"0", "42"}
\* int(s): ValueError for a string that is no numeral.
int(s) == CASE s = "0" -> 0 [] s = "42" -> 42 [] OTHER -> -1
Status(exc) == IF exc = "UnknownObjectException" THEN "404" ELSE "403"

\* A guard that protects the branch named main, whatever the base branch is.
protected_branch_main_only ==
    active_branch = "main"

\* The guard of create_file: the active branch is the base branch.
protected_branch ==
    active_branch = github_base_branch

create_file(file_path, file_contents) ==
    /\ UNCHANGED fieldVars
    /\ IF protected_branch
         THEN Done(ReturnsStr(<<"You're attempting to commit to the directly to the",
                                github_base_branch, " branch, which is protected. ",
                                "Please create a new branch and try again.">>),
                   <<>>, NoRemote, NoRemote)
         ELSE \E rem \in RemotesRead({active_branch}, active_branch), f1 \in Faults :
              \E gc \in get_contents(rem, file_path, active_branch, f1) :
                LET n1 == <<RemoteCall("get_contents", file_path, active_branch, gc.raised)>> IN
                IF gc.raised = "none" /\ Truthy(gc)
                  THEN Done(ReturnsStr(<<"File already exists at '", file_path,
                                         "' on branch '", active_branch,
                                         "'. You must use ", "'update_file' to modify it.">>),
                            n1, rem, rem)
                  ELSE \* except Exception: pass, or nothing found
                       \E f2 \in Faults :
                         LET cr == repo_create_file(rem, file_path, active_branch, f2)
                             n2 == Append(n1, RemoteCall("create_file", file_path, active_branch,
                                                        cr.raised))
                         IN  IF cr.raised = "none"
                               THEN Done(ReturnsStr(<<"Created file ", file_path>>),
                                         n2, rem, cr.rem)
                               ELSE Done(ReturnsStr(<<"Unable to make file due to error:",
                                                      cr.raised>>),
                                         n2, rem, cr.rem)

\* dumps(super().get_issue(int(issue_number))): the inherited method reads
\* the issue from the remote repository.
get_issue(issue_number) ==
    /\ UNCHANGED fieldVars
    /\ IF issue_number \notin Numerals
         THEN Done(Raises("ValueError", <<issue_number>>), <<>>, NoRemote, NoRemote)
         ELSE \E f \in Faults \cup {"UnknownObjectException"} :
                LET n1 == <<RemoteCall("get_issue", ToString(int(issue_number)), NA, f)>> IN
                IF f # "ok" THEN Done(Raises(f, <<>>), n1, NoRemote, NoRemote)
                ELSE Done(ReturnsStr(<<"{number: ", ToString(int(issue_number)), "}">>),
                          n1, NoRemote, NoRemote)

get_pull_request(pr_number) ==
    /\ UNCHANGED fieldVars
    /\ IF pr_number \notin Numerals
         THEN Done(Raises("ValueError", <<pr_number>>), <<>>, NoRemote, NoRemote)
         ELSE \E f \in Faults \cup {"UnknownObjectException"} :
                LET n1 == <<RemoteCall("get_pull", ToString(int(pr_number)), NA, f)>> IN
                IF f # "ok" THEN Done(Raises(f, <<>>), n1, NoRemote, NoRemote)
                ELSE Done(ReturnsStr(<<"{number: ", ToString(int(pr_number)), "}">>),
                          n1, NoRemote, NoRemote)

list_pull_request_diffs(pr_number) ==
    /\ UNCHANGED fieldVars
    /\ IF pr_number \notin Numerals
         THEN Done(Raises("ValueError", <<pr_number>>), <<>>, NoRemote, NoRemote)
         ELSE \E f1 \in Faults \cup {"UnknownObjectException"} :
                LET n1 == <<RemoteCall("get_pull", ToString(int(pr_number)), NA, f1)>> IN
                IF f1 # "ok" THEN Done(Raises(f1, <<>>), n1, NoRemote, NoRemote)
                ELSE \E f2 \in Faults :
                       LET n2 == Append(n1, RemoteCall("get_files", ToString(int(pr_number)), NA, f2)) IN
                       IF f2 # "ok" THEN Done(Raises(f2, <<>>), n2, NoRemote, NoRemote)
                       ELSE Done(ReturnsStr(<<"[{path: ", "patch: ", "}]">>),
                                 n2, NoRemote, NoRemote)

\* _get_files(directory_path, ref) up to its loop: the first remote read.
get_files_enter(directory_path, r) ==
    /\ UNCHANGED fieldVars
    /\ \E d \in Branches, f \in Faults :
       \E rem \in RemotesRead({r, d}, d) :
       \E gc \in get_contents(rem, directory_path, r, f) :
         LET n1 == <<RemoteCall("get_contents", directory_path, r, gc.raised)>> IN
         IF IsGithubException(gc.raised)
           THEN /\ Leave(ReturnsStr(<<"Error: status code ", Status(gc.raised), ", ",
                                      gc.raised>>), n1, rem, rem)
                /\ ref' = r
                /\ UNCHANGED <<contents, files>>
         ELSE IF gc.raised # "none"
           THEN /\ Leave(Raises(gc.raised, <<>>), n1, rem, rem)
                /\ ref' = r
                /\ UNCHANGED <<contents, files>>
         ELSE /\ pc' = "loop"
              /\ ref' = r
              /\ contents' = [kind |-> gc.kind, list |-> gc.list]
              /\ files' = <<>>
              /\ net' = n1
              /\ remote0' = rem
              /\ remote' = rem
              /\ out' = NoOutcome
              /\ callee' = NoOutcome

get_files_from_directory(directory_path) == get_files_enter(directory_path, active_branch)
list_files_in_main_branch == get_files_enter("", github_base_branch)
list_files_in_bot_branch == get_files_enter("", active_branch)

\* The while loop of _get_files, one iteration: pop the head of contents;
\* a directory is expanded by a remote read that passes no ref, a file is
\* appended to files.
get_files_iteration ==
    IF contents.kind # "list"
      THEN \* a single ContentFile is true and has no pop()
           Done(Raises("AttributeError", <<"pop">>), net, remote0, remote)
      ELSE LET file_content == Head(contents.list)
               rest == Tail(contents.list)
           IN  IF file_content.type = "dir"
                 THEN \E f \in Faults :
                      \E gc \in get_contents(remote, file_content.path, NA, f) :
                        LET n1 == Append(net, RemoteCall("get_contents", file_content.path, NA, gc.raised)) IN
                        IF gc.raised # "none"
                          THEN Done(Raises(gc.raised, <<>>), n1, remote0, remote)
                        ELSE IF gc.kind # "list"
                          THEN \* extend() of a ContentFile, which is not iterable
                               Done(Raises("TypeError", <<"extend">>), n1, remote0, remote)
                        ELSE /\ contents' = [kind |-> "list", list |-> rest \o gc.list]
                             /\ net' = n1
                             /\ UNCHANGED <<pc, ref, files, remote0, remote, out, callee>>
                 ELSE /\ contents' = [kind |-> "list", list |-> rest]
                      /\ files' = Append(files, file_content)
                      /\ UNCHANGED <<pc, ref, net, remote0, remote, out, callee>>

\* return str(files)
get_files_return ==
    Done(ReturnsStr([i \in 1..Len(files) |-> files[i].path]), net, remote0, remote)

\* The methods AlitaGitHubAPIWrapper inherits from the library's
\* GitHubAPIWrapper and registers: one remote action each, with a string or
\* an exception as outcome; set_active_branch assigns active_branch when
\* the remote repository has the branch.
InheritedRefs ==
    {"get_issues", "comment_on_issue", "list_open_pull_requests", "create_pull_request",
     "read_file", "update_file", "delete_file", "list_branches_in_repo",
     "set_active_branch", "create_branch"}

inherited(r, a, k) ==
    \E f \in Faults :
      LET n1 == <<RemoteCall(r, "", NA, f)>> IN
      IF f # "ok"
        THEN UNCHANGED fieldVars /\ Done(Raises(f, <<>>), n1, NoRemote, NoRemote)
      ELSE IF r = "set_active_branch" /\ Len(a) = 1 /\ a[1] \in Branches
        THEN /\ active_branch' = a[1]
             /\ UNCHANGED <<adapter, github_base_branch, github, client, root_folder>>
             /\ Done(ReturnsStr(<<"Switched to branch ", a[1]>>), n1, NoRemote, NoRemote)
      ELSE UNCHANGED fieldVars /\ Done(ReturnsStr(<<r>>), n1, NoRemote, NoRemote)



----------------------------------------------------------------------------
(* SharepointApiWrapper: the operations.  client is "None" when            *)
(* validate_toolkit could not authenticate; self.client.web then raises    *)
(* AttributeError.                                                         *)

SPFaults == {"ok", "ClientRequestException", "ConnectionError"}

\* A document library as the service lists it: files and folders.
Item(i, type) == [name |-> "item" \o ToString(i), type |-> type]
Libraries ==
    {[i \in 1..Len(k) |-> Item(i, k[i])] : k \in SeqsUpTo({"file", "folder"}, MaxItems)}
\* The files of a folder, recursively, as get_files(True) lists them.
FolderFiles == {[i \in 1..n |-> Item(i, "file")] : n \in 0..MaxItems}

Min(a, b) == IF a <= b THEN a ELSE b
\* top(1000) of read_list
ListTop == 1000
\* items.get().top(n): the service answers with the first n items; a top of
\* 0 is a false value, which the client library of some versions leaves out
\* of the query, and the service then answers with every item.
Top(items, n) ==
    IF n = 0 THEN {<<>>, items} ELSE {SubSeq(items, 1, Min(n, Len(items)))}

read_list(list_title) ==
    /\ UNCHANGED fieldVars
    /\ IF client = "None"
         THEN Done(ReturnsNone, <<>>, NoRemote, NoRemote)
         ELSE \E lib \in Libraries, f1 \in SPFaults, f2 \in SPFaults :
                LET rem == [items |-> lib]
                    n1 == <<RemoteCall("lists.get_by_title", list_title, NA, f1)>>
                    n2 == Append(n1, RemoteCall("items.get", list_title, NA, f2))
                IN  IF f1 # "ok" THEN Done(ReturnsNone, n1, rem, rem)
                    ELSE IF f2 # "ok" THEN Done(ReturnsNone, n2, rem, rem)
                    ELSE \E items \in Top(lib, ListTop) :
                           Done(ReturnsData("list", [i \in 1..Len(items) |-> items[i].name]),
                                n2, rem, rem)

FilesOf(items) == SelectSeq(items, LAMBDA it : it.type = "file")
\* The loads of the files fs, the last of which is answered by lastAns.
LoadCalls(fs, lastAns) ==
    [i \in 1..Len(fs) |->
        RemoteCall("load", fs[i].name, NA, IF i = Len(fs) THEN lastAns ELSE "ok")]

get_all_files(limit_files) ==
    /\ UNCHANGED fieldVars
    /\ IF client = "None"
         THEN Done(ReturnsData("list", <<>>), <<>>, NoRemote, NoRemote)
         ELSE \E lib \in Libraries, f1 \in SPFaults, f2 \in SPFaults :
                LET rem == [items |-> lib]
                    title == IF root_folder \notin {"None", ""} THEN root_folder ELSE "Documents"
                    n1 == <<RemoteCall("lists.get_by_title", title, NA, f1)>>
                    n2 == Append(n1, RemoteCall("items.get", title, NA, f2))
                IN  IF f1 # "ok" THEN Done(ReturnsData("list", <<>>), n1, rem, rem)
                    ELSE IF f2 # "ok" THEN Done(ReturnsData("list", <<>>), n2, rem, rem)
                    ELSE \E items \in Top(lib, limit_files) :
                         \E failAt \in 0..Len(FilesOf(items)) :
                           \* the load of the failAt-th file fails, or none does
                           LET fs == FilesOf(items) IN
                           IF failAt > 0
                             THEN Done(ReturnsData("list", <<>>),
                                       n2 \o LoadCalls(SubSeq(fs, 1, failAt), "ClientRequestException"),
                                       rem, rem)
                             ELSE Done(ReturnsData("list", [i \in 1..Len(fs) |-> fs[i].name]),
                                       n2 \o LoadCalls(fs, "ok"), rem, rem)

\* The for loop of get_all_files_in_folder: break once result holds
\* limit_files entries.
RECURSIVE FolderLoop(_, _, _)
FolderLoop(fs, result, limit_files) ==
    IF Len(fs) = 0 THEN result
    ELSE IF Len(result) >= limit_files THEN result
    ELSE FolderLoop(Tail(fs), Append(result, Head(fs).name), limit_files)

get_all_files_in_folder(folder_name, limit_files) ==
    /\ UNCHANGED fieldVars
    /\ IF client = "None"
         THEN Done(ReturnsData("list", <<>>), <<>>, NoRemote, NoRemote)
         ELSE \E fs \in FolderFiles, f1 \in SPFaults :
                LET rem == [items |-> fs]
                    n1 == <<RemoteCall("get_files", "Shared Documents/" \o folder_name, NA, f1)>>
                IN  IF f1 # "ok" THEN Done(ReturnsData("list", <<>>), n1, rem, rem)
                    ELSE Done(ReturnsData("list", FolderLoop(fs, <<>>, limit_files)),
                              n1, rem, rem)

\* Names of remote files, as sequences of characters.
Txt == <<".", "t", "x", "t">>
Docx == <<".", "d", "o", "c", "x">>
RemoteFileNames ==
    {<<"n">> \o Txt, <<"n">> \o Docx, <<"n", ".", "x", "y", "z">>,
     <<"n", ".", "T", "X", "T">>, <<"t", "x", "t">>, Txt, <<"n">> \o Txt \o Docx}

RECURSIVE Str(_)
Str(s) == IF Len(s) = 0 THEN "" ELSE s[1] \o Str(Tail(s))

\* str.endswith
endswith(s, suffix) ==
    Len(s) >= Len(suffix) /\ SubSeq(s, Len(s) - Len(suffix) + 1, Len(s)) = suffix

\* Bytes: A, the two bytes of e-acute, and a byte no UTF-8 text holds.
ByteValues == {65, 195, 169, 255}
Contents == SeqsUpTo(ByteValues, MaxBytes)

\* bytes.decode('utf-8') for sequences of one and two bytes per character:
\* the code points, or UnicodeDecodeError.
RECURSIVE decode(_)
decode(b) ==
    IF Len(b) = 0 THEN [ok |-> TRUE, chars |-> <<>>]
    ELSE IF b[1] < 128
      THEN LET r == decode(Tail(b)) IN [ok |-> r.ok, chars |-> <<b[1]>> \o r.chars]
    ELSE IF b[1] >= 194 /\ b[1] <= 223 /\ Len(b) >= 2 /\ b[2] >= 128 /\ b[2] <= 191
      THEN LET r == decode(Tail(Tail(b)))
           IN  [ok |-> r.ok, chars |-> <<(b[1] - 192) * 64 + (b[2] - 128)>> \o r.chars]
    ELSE [ok |-> FALSE, chars |-> <<>>]

\* read_docx_from_bytes of sharepoint/utils.py: the text of the document,
\* or the exception of the reader for bytes that are no document.
read_docx_from_bytes(b) ==
    {ReturnsData("str", <<"docx-text">>), Raises("BadZipFile", <<>>)}

SPPaths == {"Shared Documents/" \o Str(n) : n \in RemoteFileNames}

read_file(path) ==
    /\ UNCHANGED fieldVars
    /\ IF client = "None"
         THEN Done(Raises("AttributeError", <<"web">>), <<>>, NoRemote, NoRemote)
         ELSE \E name \in {n \in RemoteFileNames : "Shared Documents/" \o Str(n) = path},
                 b \in Contents, f1 \in SPFaults, f2 \in SPFaults :
                LET rem == [name |-> name, bytes |-> b]
                    n1 == <<RemoteCall("load", path, NA, f1)>>
                    n2 == Append(n1, RemoteCall("read", path, NA, f2))
                IN  IF f1 # "ok" THEN Done(Raises(f1, <<>>), n1, rem, rem)
                    ELSE IF f2 # "ok" THEN Done(Raises(f2, <<>>), n2, rem, rem)
                    ELSE IF endswith(name, Txt)
                      THEN IF decode(b).ok
                             THEN Done(ReturnsData("str", decode(b).chars), n2, rem, rem)
                             ELSE \* the except prints; file_content_str was never bound
                                  Done(Raises("UnboundLocalError", <<"file_content_str">>),
                                       n2, rem, rem)
                    ELSE IF endswith(name, Docx)
                      THEN \E o \in read_docx_from_bytes(b) : Done(o, n2, rem, rem)
                    ELSE Done(ReturnsStr(<<"Not supported type of files entered. Supported types are TXT and DOCX only at the moment">>),
                              n2, rem, rem)

Limits == 0..(MaxItems + 1)

\* The values the caller passes to each callable.
CallForms(a, r) ==
    CASE a = "github" /\ r = "create_file" ->
           {Positional(<<p, "hi">>) : p \in PathStrings}
           \cup {Keywords(Params(a, r), <<"a.txt", "">>), Positional(<<"a.txt">>)}
      [] a = "github" /\ r \in {"get_issue", "get_pull_request", "list_pull_request_diffs"} ->
           {Positional(<<n>>) : n \in Numerals \cup {"x"}}
           \cup {Keywords(Params(a, r), <<"42">>)}
      [] a = "github" /\ r = "get_files_from_directory" ->
           {Positional(<<p>>) : p \in PathStrings}
           \cup {Keywords(Params(a, r), <<"dir">>)}
      [] a = "github" /\ r = "set_active_branch" ->
           {Positional(<<b>>) : b \in Branches \cup {"nope"}}
      [] a = "sharepoint" /\ r = "read_list" ->
           {Positional(<<"Tasks">>), Keywords(Params(a, r), <<"Tasks">>)}
      [] a = "sharepoint" /\ r = "get_all_files" ->
           {Positional(<<n>>) : n \in Limits}
           \cup {Positional(<<>>), Keywords(Params(a, r), <<1>>)}
      [] a = "sharepoint" /\ r = "get_all_files_in_folder" ->
           {Positional(<<"F", n>>) : n \in Limits}
           \cup {Positional(<<"F">>), Keywords(Params(a, r), <<"F", 1>>)}
      [] a = "sharepoint" /\ r = "read_file" ->
           {Positional(<<p>>) : p \in SPPaths}
           \cup {Keywords(Params(a, r), <<"Shared Documents/n.txt">>), Positional(<<>>)}
      [] OTHER -> {Positional(<<>>), Positional(<<"x">>)}

----------------------------------------------------------------------------
(* The call ref(args, kwargs) of the callable r of adapter a.           *)

Invoke(a, r, args, kw) ==
    LET b == Bind(Params(a, r), Defaults(a, r), args, kw) IN
    IF a = "github" /\ r \in InheritedRefs THEN inherited(r, args, kw)
    ELSE IF ~b.ok
      THEN UNCHANGED fieldVars /\ Done(Raises("TypeError", <<r>>), <<>>, NoRemote, NoRemote)
    ELSE CASE r = "create_file" -> create_file(b.val["file_path"], b.val["file_contents"])
           [] r = "get_issue" -> get_issue(b.val["issue_number"])
           [] r = "get_pull_request" -> get_pull_request(b.val["pr_number"])
           [] r = "list_pull_request_diffs" -> list_pull_request_diffs(b.val["pr_number"])
           [] r = "get_files_from_directory" -> get_files_from_directory(b.val["directory_path"])
           [] r = "list_files_in_main_branch" -> list_files_in_main_branch
           [] r = "list_files_in_bot_branch" -> list_files_in_bot_branch
           [] r = "read_list" -> read_list(b.val["list_title"])
           [] r = "get_all_files" -> get_all_files(b.val["limit_files"])
           [] r = "get_all_files_in_folder" ->
                get_all_files_in_folder(b.val["folder_name"], b.val["limit_files"])
           [] r = "read_file" -> read_file(b.val["path"])

Begin(op, name, f) ==
    /\ pc = "idle"
    /\ call' = [op |-> op, name |-> name, args |-> f.args, kwargs |-> f.kwargs]
    /\ pre' = Fields
    /\ UNCHANGED authVars

\* The caller calls the method r of the adapter itself.
Direct(r) ==
    /\ pc = "idle"
    /\ \E f \in CallForms(adapter, r) :
      /\ Begin(r, NA, f)
      /\ inv' = <<>>
      /\ listed' = listed
      /\ Invoke(adapter, r, f.args, f.kwargs)

----------------------------------------------------------------------------
(* The actions.                                                            *)

CreateFile == adapter = "github" /\ Direct("create_file")
GetIssue == adapter = "github" /\ Direct("get_issue")
GetPullRequest == adapter = "github" /\ Direct("get_pull_request")
ListPullRequestDiffs == adapter = "github" /\ Direct("list_pull_request_diffs")
GetFilesFromDirectory == adapter = "github" /\ Direct("get_files_from_directory")
ListFilesInMainBranch == adapter = "github" /\ Direct("list_files_in_main_branch")
ListFilesInBotBranch == adapter = "github" /\ Direct("list_files_in_bot_branch")
Inherited == adapter = "github" /\ \E r \in InheritedRefs : Direct(r)

ReadList == adapter = "sharepoint" /\ Direct("read_list")
GetAllFiles == adapter = "sharepoint" /\ Direct("get_all_files")
GetAllFilesInFolder == adapter = "sharepoint" /\ Direct("get_all_files_in_folder")
ReadFile == adapter = "sharepoint" /\ Direct("read_file")

GetFilesStep ==
    /\ pc = "loop"
    /\ Truthy(contents)
    /\ UNCHANGED <<call, pre, inv, listed, fieldVars, authVars>>
    /\ get_files_iteration

GetFilesReturn ==
    /\ pc = "loop"
    /\ ~Truthy(contents)
    /\ UNCHANGED <<call, pre, inv, listed, fieldVars, authVars>>
    /\ get_files_return

GetAvailableTools ==
    /\ Begin("get_available_tools", NA, [args |-> <<>>, kwargs |-> NoKw])
    /\ inv' = <<>>
    /\ listed' = Push(listed, ToolNames(get_available_tools(adapter)))
    /\ UNCHANGED fieldVars
    /\ Done(ReturnsData("list", ToolNames(get_available_tools(adapter))),
            <<>>, NoRemote, NoRemote)

\* The names callers ask run() for: every registered name of both adapters,
\* method names that are no registered name, and names of nothing.
RunNames ==
    Range(ToolNames(GitHubTools)) \cup Range(ToolNames(SharepointTools))
    \cup {"list_pull_request_diffs", "list_files_in_bot_branch", "run",
          "Create_File", "frobnicate", ""}

Run ==
    /\ pc = "idle"
    /\ \E name \in RunNames :
      LET tools == get_available_tools(adapter)
          i == RunLoop(tools, 1, name)
      IN  IF i = 0
            THEN \E f \in CallForms(adapter, name) :
                   /\ Begin("run", name, f)
                   /\ listed' = Push(listed, ToolNames(tools))
                   /\ inv' = <<>>
                   /\ callee' = NoOutcome
                   /\ out' = Raises("ValueError", <<"Unknown mode: ", name>>)
                   /\ net' = <<>>
                   /\ remote0' = NoRemote
                   /\ remote' = NoRemote
                   /\ pc' = "returned"
                   /\ UNCHANGED <<fieldVars, loopVars>>
            ELSE \E f \in CallForms(adapter, tools[i].ref) :
                   LET fw == run_forward(f.args, f.kwargs) IN
                   /\ Begin("run", name, f)
                   /\ listed' = Push(listed, ToolNames(tools))
                   /\ inv' = <<[ref |-> tools[i].ref, args |-> fw.args, kwargs |-> fw.kwargs]>>
                   /\ Invoke(adapter, tools[i].ref, fw.args, fw.kwargs)

\* The caller takes the outcome; the adapter is idle again.
TakeResult ==
    /\ pc = "returned"
    /\ pc' = "idle"
    /\ call' = NoCall
    /\ pre' = Fields
    /\ inv' = <<>>
    /\ net' = <<>>
    /\ callee' = NoOutcome
    /\ out' = NoOutcome
    /\ listed' = listed
    /\ remote0' = NoRemote
    /\ remote' = NoRemote
    /\ ref' = NA
    /\ contents' = [kind |-> "list", list |-> <<>>]
    /\ files' = <<>>
    /\ UNCHANGED <<fieldVars, authVars>>

NoCfg == [kind |-> NA]
NoBuiltYet == [state |-> NA, exc |-> "none", auth |-> NA, session |-> NA]

InitCall ==
    /\ pc = "idle"
    /\ call = NoCall
    /\ inv = <<>>
    /\ net = <<>>
    /\ callee = NoOutcome
    /\ out = NoOutcome
    /\ listed = <<>>
    /\ remote0 = NoRemote
    /\ remote = NoRemote
    /\ ref = NA
    /\ contents = [kind |-> "list", list |-> <<>>]
    /\ files = <<>>

\* An instance as validate_environment leaves it: a session, two branches.
InitGitHub ==
    /\ adapter = "github"
    /\ active_branch \in Branches
    /\ github_base_branch \in Branches
    /\ github = "session"
    /\ client = NA
    /\ root_folder = NA

\* An instance as validate_toolkit leaves it: with a client, or with None.
InitSharepoint ==
    /\ adapter = "sharepoint"
    /\ active_branch = NA
    /\ github_base_branch = NA
    /\ github = NA
    /\ client \in {"None", "ClientContext"}
    /\ root_folder \in {"None", "Docs"}

Init ==
    /\ (InitGitHub \/ InitSharepoint)
    /\ InitCall
    /\ pre = Fields
    /\ cfg = NoCfg
    /\ built = NoBuiltYet

Next ==
    \/ CreateFile
    \/ GetIssue
    \/ GetPullRequest
    \/ ListPullRequestDiffs
    \/ GetFilesFromDirectory
    \/ ListFilesInMainBranch
    \/ ListFilesInBotBranch
    \/ Inherited
    \/ GetFilesStep
    \/ GetFilesReturn
    \/ ReadList
    \/ GetAllFiles
    \/ GetAllFilesInFolder
    \/ ReadFile
    \/ GetAvailableTools
    \/ Run
    \/ TakeResult

Spec == Init /\ [][Next]_vars

----------------------------------------------------------------------------
(* Construction: the root validators.  cfg is what the constructor is      *)
(* given: the explicit values, the environment, and for a private key      *)
(* that names a file, the file.  An absent value is the empty string.      *)

NoDefault == "<no default>"

GitHubConfigs ==
    {c \in [kind : {"github"},
            github_app_id : {"", "1"},
            github_app_private_key : {"", "KEY", "/k.pem"},
            key_file : {"absent", "", "PEM"},
            github_access_token : {"", "tok"},
            GITHUB_ACCESS_TOKEN : {"", "envtok"},
            github_username : {"", "u"},
            github_password : {"", "p"},
            github_repository : {"", "o/r"},
            active_branch : {"", "main"},
            github_base_branch : {"", "main"}] :
       c.key_file # "absent" => c.github_app_private_key = "/k.pem"}

SharepointConfigs ==
    [kind : {"sharepoint"}, site_url : {"https://s"}, client_id : {"id"},
     client_secret : {"good", "bad"}, root_folder : {"None", "Docs"}]

\* The environment variables of the process.
getenv(c, env_key) == IF env_key = "GITHUB_ACCESS_TOKEN" THEN c.GITHUB_ACCESS_TOKEN ELSE ""

\* get_from_dict_or_env(values, key, env_key, default): the explicit value
\* when it is there and true, else the environment's, else the default.
get_from_dict_or_env(c, key, env_key, default) ==
    IF c[key] # "" THEN c[key]
    ELSE IF getenv(c, env_key) # "" THEN getenv(c, env_key)
    ELSE default

\* private_key: the content of the file the field names when there is such
\* a file, else the field itself.
private_key(c) ==
    LET github_app_private_key ==
            get_from_dict_or_env(c, "github_app_private_key", "GITHUB_APP_PRIVATE_KEY", "")
    IN  IF github_app_private_key # "" /\ c.key_file # "absent"
          THEN c.key_file
          ELSE github_app_private_key

\* The if/elif chain that chooses auth.
select_auth(github_access_token, github_username, github_password, github_app_id, key) ==
    IF github_access_token # "" THEN "Token"
    ELSE IF github_username # "" /\ github_password # "" THEN "Login"
    ELSE IF github_app_id # "" /\ key # "" THEN "AppAuth"
    ELSE "None"

\* The if/elif chain that builds the session g from auth.
select_session(auth, github_app_id, key) ==
    IF auth = "None" THEN "anonymous"
    ELSE IF github_app_id # "" /\ key # "" THEN "integration"
    ELSE "direct"

Built(auth, session) == [state |-> "instance", exc |-> "none", auth |-> auth, session |-> session]
Failed(exc, auth, session) == [state |-> "raised", exc |-> exc, auth |-> auth, session |-> session]

\* What the remote does to the integration path: it answers, it fails, the
\* app has no installation, or the library refuses an auth that is no AppAuth.
InstallationAnswers(auth) ==
    IF auth = "AppAuth" THEN {"ok", "GithubException", "IndexError"}
    ELSE {"ok", "AssertionError", "GithubException", "IndexError"}
\* ... and to get_repo: it answers, or the credentials or the repository
\* are refused, or it cannot be reached.
GetRepoAnswers == {"ok", "BadCredentialsException", "UnknownObjectException", "ConnectionError"}

validate_environment ==
    LET github_app_id == get_from_dict_or_env(cfg, "github_app_id", "GITHUB_APP_ID", "")
        github_access_token ==
            get_from_dict_or_env(cfg, "github_access_token", "GITHUB_ACCESS_TOKEN", "")
        github_username == get_from_dict_or_env(cfg, "github_username", "GITHUB_USERNAME", "")
        github_password == get_from_dict_or_env(cfg, "github_password", "GITHUB_PASSWORD", "")
        github_repository ==
            get_from_dict_or_env(cfg, "github_repository", "GITHUB_REPOSITORY", NoDefault)
        active == get_from_dict_or_env(cfg, "active_branch", "ACTIVE_BRANCH", "ai")
        base == get_from_dict_or_env(cfg, "github_base_branch", "GITHUB_BASE_BRANCH", "main")
        key == private_key(cfg)
        auth == select_auth(github_access_token, github_username, github_password,
                            github_app_id, key)
        session == select_session(auth, github_app_id, key)
    IN  IF github_repository = NoDefault
          THEN /\ built' = Failed("ValueError", NA, NA)
               /\ UNCHANGED fieldVars
          ELSE \E f1 \in InstallationAnswers(auth), f2 \in GetRepoAnswers :
                 IF session = "integration" /\ f1 # "ok"
                   THEN /\ built' = Failed(f1, auth, session)
                        /\ UNCHANGED fieldVars
                 ELSE IF f2 # "ok"
                   THEN /\ built' = Failed(f2, auth, session)
                        /\ UNCHANGED fieldVars
                 ELSE /\ built' = Built(auth, session)
                      /\ github' = "session"
                      /\ active_branch' = active
                      /\ github_base_branch' = base
                      /\ UNCHANGED <<adapter, client, root_folder>>

\* What acquire_token_for_app does: it returns True, returns False, raises.
AcquireAnswers(c) ==
    IF c.client_secret = "good" THEN {"True", "ConnectionError"}
    ELSE {"False", "ValueError"}

validate_toolkit ==
    \E a \in AcquireAnswers(cfg) :
      /\ built' = Built("app", IF a = "True" THEN "ClientContext" ELSE "None")
      /\ client' = IF a = "True" THEN "ClientContext" ELSE "None"
      /\ root_folder' = cfg.root_folder
      /\ UNCHANGED <<adapter, active_branch, github_base_branch, github>>

ValidateEnvironment ==
    /\ pc = "new"
    /\ cfg.kind = "github"
    /\ pc' = "constructed"
    /\ validate_environment
    /\ UNCHANGED <<call, pre, inv, net, callee, out, listed, remote0, remote, loopVars, cfg>>

ValidateToolkit ==
    /\ pc = "new"
    /\ cfg.kind = "sharepoint"
    /\ pc' = "constructed"
    /\ validate_toolkit
    /\ UNCHANGED <<call, pre, inv, net, callee, out, listed, remote0, remote, loopVars, cfg>>

InitAuth ==
    /\ cfg \in GitHubConfigs \cup SharepointConfigs
    /\ built = NoBuiltYet
    /\ adapter = cfg.kind
    /\ active_branch = NA
    /\ github_base_branch = NA
    /\ github = NA
    /\ client = NA
    /\ root_folder = NA
    /\ call = NoCall
    /\ inv = <<>>
    /\ net = <<>>
    /\ callee = NoOutcome
    /\ out = NoOutcome
    /\ listed = <<>>
    /\ remote0 = NoRemote
    /\ remote = NoRemote
    /\ ref = NA
    /\ contents = [kind |-> "list", list |-> <<>>]
    /\ files = <<>>
    /\ pre = Fields
    /\ pc = "new"

NextAuth == ValidateEnvironment \/ ValidateToolkit

SpecAuth == InitAuth /\ [][NextAuth]_vars

----------------------------------------------------------------------------
(* The claims.                                                             *)

\* The callable the finished call ran: the method called, or the one run()
\* invoked.
Op == IF call.op = "run" THEN (IF inv = <<>> THEN NA ELSE inv[1].ref) ELSE call.op
\* The call gave the callable the arguments its def declares.
WellFormed == Bind(Params(adapter, Op), Defaults(adapter, Op), call.args, call.kwargs).ok
Arg(n) == Bind(Params(adapter, Op), Defaults(adapter, Op), call.args, call.kwargs).val[n]
Registered == Range(ToolNames(IF adapter = "github" THEN GitHubTools ELSE SharepointTools))
RefOfName(name) ==
    (CHOOSE t \in Range(IF adapter = "github" THEN GitHubTools ELSE SharepointTools) :
        t.name = name).ref
AllAnswered == \A i \in 1..Len(net) : net[i].ans = "ok"

\* C1: in both adapters, run(name, ...) with a name that no descriptor of
\* get_available_tools() carries raises an error whose message holds the
\* name, and invokes no callable and no remote primitive on the way.
C1_UnknownNameRaises ==
    (pc = "returned" /\ call.op = "run" /\ call.name \notin Registered)
        => /\ out.raised = "ValueError"
           /\ call.name \in Range(out.text)
           /\ inv = <<>>
           /\ callee = NoOutcome
           /\ net = <<>>
           /\ Fields = pre

C1_Witness ==
    /\ pc = "returned"
    /\ adapter = "sharepoint"
    /\ call.op = "run"
    /\ call.name = "create_file"
    /\ out.raised = "ValueError"

\* C2: in both adapters, run(name, args, kwargs) with a registered name
\* invokes one callable, the ref of the descriptor of that name, once, with
\* the arguments as given, and its outcome is the outcome of run.
C2_RegisteredNameDispatches ==
    (call.op = "run" /\ call.name \in Registered /\ pc \in {"loop", "returned"})
        => /\ Len(inv) = 1
           /\ inv[1].ref = RefOfName(call.name)
           /\ inv[1].args = call.args
           /\ inv[1].kwargs = call.kwargs
           /\ pc = "returned" => (callee # NoOutcome /\ out = callee)

C2_Witness ==
    /\ pc = "returned"
    /\ adapter = "github"
    /\ call.op = "run"
    /\ call.name = "list_pull_request_files"
    /\ DOMAIN call.kwargs = {"pr_number"}
    /\ inv[1].ref = "list_pull_request_diffs"
    /\ out.raised = "none"
    /\ out.kind = "str"

\* C3: in both adapters, after any sequence of operations, two calls of
\* get_available_tools() return the same names in the same order, and a
\* call of it changes no field of the adapter and makes no remote call.
C3_ListingIsStable ==
    /\ Len(listed) = 2 => listed[1] = listed[2]
    /\ (pc = "returned" /\ call.op = "get_available_tools")
          => /\ out.raised = "none"
             /\ out.data = listed[Len(listed)]
             /\ Fields = pre
             /\ net = <<>>

C3_Witness ==
    /\ pc = "returned"
    /\ adapter = "github"
    /\ call.op = "get_available_tools"
    /\ Len(listed) = 2
    /\ active_branch = github_base_branch
    /\ Len(out.data) = 16

\* C4: create_file(file_path, file_contents) of the GitHub adapter, called
\* while active_branch equals github_base_branch, returns a refusal that
\* names the base branch and calls no remote primitive, for every path and
\* content.
C4_ProtectedBranchRefuses ==
    (pc = "returned" /\ adapter = "github" /\ Op = "create_file" /\ WellFormed
     /\ pre.active_branch = pre.github_base_branch)
        => /\ out.raised = "none"
           /\ out.kind = "str"
           /\ pre.github_base_branch \in Range(out.text)
           /\ net = <<>>
           /\ remote = remote0

C4_Witness ==
    /\ pc = "returned"
    /\ adapter = "github"
    /\ call.op = "run"
    /\ Op = "create_file"
    /\ WellFormed
    /\ pre.active_branch = "ai"
    /\ pre.github_base_branch = "ai"
    /\ "ai" \in Range(out.text)
    /\ net = <<>>

\* The path exists on the branch: it is a file or a directory of the tree.
ExistsOn(tree, path) ==
    LET p == ParsePath(path) IN Len(p) > 0 /\ (p \in tree \/ Children(tree, p) # {})

\* C5: create_file with active_branch other than github_base_branch, for a
\* path that exists on the active branch, returns the conflict message that
\* points to update_file, never calls the remote create primitive, and
\* leaves the remote file as it was.
C5_ExistingFileConflicts ==
    (pc = "returned" /\ adapter = "github" /\ Op = "create_file" /\ WellFormed
     /\ pre.active_branch # pre.github_base_branch
     /\ ExistsOn(remote0.tree[pre.active_branch], Arg("file_path")))
        => /\ out.raised = "none"
           /\ "'update_file' to modify it." \in Range(out.text)
           /\ \A i \in 1..Len(net) : net[i].prim # "create_file"
           /\ remote = remote0

\* The files of the tree under the directory path, as path strings.
FilesUnder(tree, path) ==
    {PathStr(q) : q \in {x \in tree : IsPrefix(ParsePath(path), x)}}
IsDirectory(tree, path) ==
    ParsePath(path) \notin tree /\ Children(tree, ParsePath(path)) # {}
Listings == {"get_files_from_directory", "list_files_in_main_branch", "list_files_in_bot_branch"}
ListedDirectory == IF Op = "get_files_from_directory" THEN Arg("directory_path") ELSE ""

\* C6: the recursive listing _get_files, for every finite directory tree,
\* ends its loop with an empty queue and returns exactly the files of the
\* tree under the directory, each once, and no directory, in whatever order
\* the entries of a directory come.  Stated for the listings in which every
\* remote read was answered.
C6_ListingIsExact ==
    (pc = "returned" /\ adapter = "github" /\ Op \in Listings /\ WellFormed
     /\ IsDirectory(remote0.tree[ref], ListedDirectory) /\ AllAnswered)
        => /\ out.raised = "none"
           /\ Len(contents.list) = 0
           /\ Range(out.text) = FilesUnder(remote0.tree[ref], ListedDirectory)
           /\ Len(out.text) = Cardinality(Range(out.text))

ClaimedOperations ==
    IF adapter = "github"
      THEN Listings \cup {"create_file", "get_issue", "get_pull_request",
                          "list_pull_request_diffs"}
      ELSE {"read_list", "get_all_files", "get_all_files_in_folder", "read_file"}

\* C7: every operation of the two adapters, when a remote call it makes
\* fails, returns a descriptive string; it does not raise and does not
\* return a missing value.
C7_RemoteFailureBecomesString ==
    (pc = "returned" /\ Op \in ClaimedOperations /\ WellFormed
     /\ \E i \in 1..Len(net) : net[i].ans # "ok")
        => /\ out.raised = "none"
           /\ out.kind = "str"
           /\ Len(out.text) > 0

\* C8: read_file(path) of the SharePoint adapter returns the stored bytes
\* decoded as UTF-8 for a name ending in .txt, the unsupported-type message
\* for a name ending in neither .txt nor .docx, and never raises, whatever
\* the path and the bytes.  Stated for the reads the remote answered.
C8_ReadFileNeverRaises ==
    (pc = "returned" /\ adapter = "sharepoint" /\ Op = "read_file" /\ WellFormed
     /\ client # "None" /\ AllAnswered)
        => /\ out.raised = "none"
           /\ endswith(remote0.name, Txt)
                 => (decode(remote0.bytes).ok /\ out.data = decode(remote0.bytes).chars)
           /\ (~endswith(remote0.name, Txt) /\ ~endswith(remote0.name, Docx))
                 => out.text = <<"Not supported type of files entered. Supported types are TXT and DOCX only at the moment">>

\* The strategy the priority order selects from the resolved credentials.
Chosen(token, user, password, app_id, key) ==
    CASE token # "" -> "Token"
      [] token = "" /\ user # "" /\ password # "" -> "Login"
      [] token = "" /\ ~(user # "" /\ password # "") /\ app_id # "" /\ key # "" -> "AppAuth"
      [] OTHER -> "None"
Resolved(key, env_key) == get_from_dict_or_env(cfg, key, env_key, "")

\* C9: validate_environment selects one authentication strategy by the
\* priority token, login pair, app identity, none; and builds the session
\* through the integration path exactly when the strategy selected is the
\* app identity: with a token the session is a direct client even when an
\* app id and a private key are given too.
C9_IntegrationOnlyForAppAuth ==
    (pc = "constructed" /\ cfg.kind = "github" /\ built.auth # NA)
        => /\ built.auth = Chosen(Resolved("github_access_token", "GITHUB_ACCESS_TOKEN"),
                                  Resolved("github_username", "GITHUB_USERNAME"),
                                  Resolved("github_password", "GITHUB_PASSWORD"),
                                  Resolved("github_app_id", "GITHUB_APP_ID"),
                                  private_key(cfg))
           /\ built.session = "integration" <=> built.auth = "AppAuth"

\* C10: in both adapters a failure to authenticate or to reach the remote
\* resource during construction makes the construction raise; no instance
\* exists whose session is absent.
C10_NoInstanceWithoutSession ==
    (pc = "constructed" /\ built.state = "instance")
        => /\ adapter = "github" => github = "session"
           /\ adapter = "sharepoint" => client \notin {"None", NA}

LimitedListings == {"get_all_files", "get_all_files_in_folder"}
\* A listing of the SharePoint adapter that the remote answered throughout.
AnsweredListing ==
    /\ pc = "returned" /\ adapter = "sharepoint" /\ Op \in LimitedListings
    /\ WellFormed /\ client # "None" /\ AllAnswered
\* The number of files the listed location holds.
FilesThere == Len(FilesOf(remote0.items))

\* C11: get_all_files and get_all_files_in_folder return no more than
\* limit_files entries, and exactly limit_files of them when the listed
\* location holds at least that many files: the limit counts the files
\* returned.  An omitted limit_files is 10.
C11_LimitCountsFiles ==
    AnsweredListing
        => /\ Len(call.args) + Cardinality(DOMAIN call.kwargs)
                 < Len(Params(adapter, Op)) => Arg("limit_files") = 10
           /\ Len(out.data) <= Arg("limit_files")
           /\ FilesThere >= Arg("limit_files") => Len(out.data) = Arg("limit_files")

\* C12: get_all_files and get_all_files_in_folder called with limit_files = 0
\* return an empty result and do not raise, however many files the listed
\* location holds.
C12_LimitZeroIsEmpty ==
    (pc = "returned" /\ adapter = "sharepoint" /\ Op \in LimitedListings
     /\ WellFormed /\ Arg("limit_files") = 0)
        => /\ out.raised = "none"
           /\ out.kind = "list"
           /\ out.data = <<>>

\* C13: in the registry of each adapter the names are pairwise distinct, so
\* the first-match lookup of run reaches every descriptor: none is shadowed
\* by an earlier one of the same name.
C13_NoDescriptorShadowed ==
    (pc = "returned" /\ call.op \in {"run", "get_available_tools"})
        => LET tools == get_available_tools(adapter)
               names == listed[Len(listed)]
           IN  /\ Cardinality(Range(names)) = Len(names)
               /\ \A i \in 1..Len(tools) : RunLoop(tools, 1, tools[i].name) = i
               /\ (call.op = "run" /\ inv # <<>>)
                     => \A i \in 1..Len(tools) :
                           tools[i].name = call.name => inv[1].ref = tools[i].ref

C13_Witness ==
    /\ pc = "returned"
    /\ adapter = "sharepoint"
    /\ call.op = "run"
    /\ call.name = "read_document"
    /\ inv # <<>>
    /\ inv[1].ref = "read_file"
    /\ Len(listed[Len(listed)]) = 4
    /\ out.raised = "none"

\* The branch a listing is asked for: the base branch for
\* list_files_in_main_branch, the active branch for the other two.
ListedRef ==
    IF Op = "list_files_in_main_branch" THEN pre.github_base_branch ELSE pre.active_branch

\* C14: every remote directory read of one listing by _get_files, the first
\* one and each expansion of a directory popped from the queue, is made
\* against the ref the listing was given, so every file of the result comes
\* from that branch, also when the branches differ in a subdirectory.
C14_EveryReadUsesRef ==
    (pc \in {"loop", "returned"} /\ adapter = "github" /\ Op \in Listings /\ WellFormed)
        => /\ ref = ListedRef
           /\ \A i \in 1..Len(net) :
                 net[i].prim = "get_contents" => net[i].ref = ListedRef
           /\ (pc = "returned" /\ out.raised = "none" /\ AllAnswered
               /\ IsDirectory(remote0.tree[ListedRef], ListedDirectory))
                 => Range(out.text) \subseteq FilesUnder(remote0.tree[ListedRef], ListedDirectory)

====
